---- MODULE Spec2Model ----
(***************************************************************************)
(* JSMusicVis: the host frame scheduler (frameLooper, the audio 'play'     *)
(* handler, the one-shot timers, changeAudioFile, the set-up sequence) and *)
(* the WebGPURenderer object (initialize, resizeCanvas, renderFrame).      *)
(*                                                                         *)
(* Time is counted in units of 2.5 ms, so that targetFrameTime = 1000/80   *)
(* = 12.5 ms is 5 units and the 5 ms of the scheduling scenario is 2.      *)
(* JavaScript runs every handler to completion: each action below is one   *)
(* task (or one await-delimited step of an async function).                *)
(***************************************************************************)
EXTENDS Integers, Sequences, FiniteSets, TLC

(* ---------------- bounds of the model ---------------- *)
MaxTime == 7
MaxPending == 2
MaxEvents == 1
MaxLevel == 1
MaxPasses == 5
MaxTicks == 4
MaxFrames == 3
MaxTracks == 3
MaxInFlight == 2
MaxFiles == 2

(* ---------------- program constants ---------------- *)
TargetFrameTime == 5
ScaleNum == 13
ScaleDen == 10
BlandDelta == 50
BrightFloor == 128
RerollCeiling == 200
ChannelMax == 255
WalkMax == 20
bufferLength == 512
UnormMax == 255
MixCount == 5
FalloffNum == 51
FalloffDen == 40

(* ---------------- input sets ---------------- *)
FrameSteps == {2, 5}
LogicalSizes == {<<3, 2>>, <<5, 4>>}
RandomBytes == {0, ChannelMax}
RandomSteps == {WalkMax}
ColorBytes_Low == {0, RerollCeiling - 1}
ColorBytes == {0, RerollCeiling}
ColorSteps == {0, WalkMax}
ColorStarts == {<<0, 0, 0>>, <<ChannelMax, ChannelMax, ChannelMax>>,
                <<RerollCeiling, RerollCeiling - 10, RerollCeiling - 20>>}
Files == {1}
Snapshots == {1}
ShaderSizes == {<<2, 2>>, <<3, 3>>}
TexelLevels == {0, UnormMax}
TexelAlphas == {0, UnormMax}
DecaySizes == {<<2, 2>>}
DecayLevels == {0, 5}

Min(a, b) == IF a < b THEN a ELSE b
Max(a, b) == IF a > b THEN a ELSE b

(* ---------------- the renderer's resources ---------------- *)
Textures == {"renderTexture", "tempTexture", "msaaTexture", "waveformTexture"}
Buffers == {"uniformBuffer", "audioDataBuffer", "colorUniformBuffer"}
Kinds == Textures \cup Buffers
Pipelines == {"blurPipeline", "waveformPipeline", "copyPipeline", "compositePipeline"}

\* A field of the renderer: alloc = the field is non-null, live = the object
\* it refers to has not been destroyed, fresh = the object was created by
\* the most recent resizeCanvas call; w, h = texture size; data = contents.
NullRes == [alloc |-> FALSE, live |-> FALSE, fresh |-> FALSE, w |-> 0, h |-> 0, data |-> << >>]

NewRenderer ==
    [canvas |-> FALSE, bufferLength |-> 0, device |-> FALSE, alphaMode |-> "none",
     built |-> [p \in Pipelines |-> 0], res |-> [k \in Kinds |-> NullRes],
     copySampler |-> FALSE]

\* canvas.width = clientWidth * scaleFactor: the product is converted to an
\* unsigned long, i.e. truncated.
Backing(c) == (c * ScaleNum) \div ScaleDen

\* resizeCanvas forgetting to destroy the multisample texture.
DestroyedKinds_NoMsaa == Kinds \ {"msaaTexture"}

\* The resources resizeCanvas destroys and the ones it creates.
DestroyedKinds == Kinds
CreatedKinds == Kinds

\* The multisample texture sized from a product rounded up.
TextureSize_MsaaRoundedUp(k, cv) ==
    IF k = "msaaTexture" THEN <<cv[1] + 1, cv[2] + 1>> ELSE cv

\* The size a texture is created with, read back from the canvas.
TextureSize(k, cv) == cv

\* A texture is created zero-filled, a buffer empty.
Blank(k) == IF k \in Textures THEN <<0>> ELSE << >>

ResizedRes(rd, cv) ==
    [k \in Kinds |->
        IF k \in CreatedKinds
        THEN [alloc |-> TRUE, live |-> TRUE, fresh |-> TRUE,
              w |-> IF k \in Textures THEN TextureSize(k, cv)[1] ELSE 0,
              h |-> IF k \in Textures THEN TextureSize(k, cv)[2] ELSE 0,
              data |-> Blank(k)]
        ELSE [rd.res[k] EXCEPT !.fresh = FALSE,
                               !.live = rd.res[k].live /\ k \notin DestroyedKinds]]

\* resizeCanvas dropping the old objects without destroying them.
Leaked_KeepsOld(rd, old) ==
    old \cup {k \in Kinds : rd.res[k].alloc /\ rd.res[k].live}

\* Objects of an earlier resizeCanvas call that are still live afterwards.
Leaked(rd, old) ==
    old \cup {k \in Kinds : rd.res[k].alloc /\ rd.res[k].live /\ k \notin DestroyedKinds}

\* resizeCanvas creating the blur pipeline again.
ResizeRebuilds_Blur == {"blurPipeline"}

\* The pipelines resizeCanvas creates: none.
ResizeRebuilds == {}

\* WebGPURenderer.resizeCanvas: [threw, rend, canvas, leaked].  With no
\* device the canvas is resized and createTexture raises a TypeError.
RendererResize(rd, cl, old) ==
    LET cv == <<Backing(cl[1]), Backing(cl[2])>> IN
    IF ~rd.device
    THEN [threw |-> TRUE, rend |-> rd, canvas |-> cv, leaked |-> old]
    ELSE [threw |-> FALSE,
          rend |-> [rd EXCEPT !.res = ResizedRes(rd, cv), !.copySampler = TRUE,
                              !.built = [q \in Pipelines |->
                                  IF q \in ResizeRebuilds THEN rd.built[q] + 1
                                  ELSE rd.built[q]]],
          canvas |-> cv,
          leaked |-> Leaked(rd, old)]

(* ---------------- the passes of renderFrame ---------------- *)
\* Decay/blur pass on the one-scalar abstraction of a surface: the trail
\* intensity is kept, and lowered by one when clearFrame is set.
Decay(px, clear) == IF clear = 1 THEN <<Max(px[1] - 1, 0)>> ELSE px

\* Composite pass: the waveform is painted at full intensity.
Composite(px) == <<MaxLevel>>

\* The surface the blur pass reads, and what the copy at the end of the
\* frame writes into the render surface.
BlurInput(rd) == rd.res["renderTexture"].data

\* renderFrame without the copy of the temp surface back to the render surface.
CopyBack_Missing(tempFinal, oldRender) == oldRender

CopyBack(tempFinal, oldRender) == tempFinal

\* The width and height written into the uniforms.
UniformSize(cv) == cv

\* renderFrame presenting the temp surface before the composite pass.
Passes_PresentFirst(draw) ==
    <<"blur">> \o (IF draw THEN <<"shadow", "stroke", "present", "composite">>
                   ELSE <<"present">>) \o <<"copy">>

\* The passes and copies renderFrame records into its command encoder, in
\* order: the blur compute pass, the waveform render pass (shadow draw, then
\* colored draw), the composite pass, the present pass, the copy back.
Passes(draw) ==
    <<"blur">> \o (IF draw THEN <<"shadow", "stroke", "composite">> ELSE << >>)
               \o <<"present", "copy">>

\* renderFrame writing the sample buffer on every call.
Uploads_EveryFrame(draw) == 1

\* The writes to audioDataBuffer one renderFrame call makes.
Uploads(draw) == IF draw THEN 1 ELSE 0

RenderThrows(rd) == ~rd.device \/ \E k \in Kinds : ~rd.res[k].alloc

\* WebGPURenderer.renderFrame: [threw, rend, log].
RenderFrame(rd, cv, p) ==
    LET draw == p.updateWaveform = 1 /\ p.audioData # << >>
        decayed == Decay(BlurInput(rd), p.clearFrame)
        tempFinal == IF draw THEN Composite(decayed) ELSE decayed
        usz == UniformSize(cv)
        res1 == [rd.res EXCEPT
                   !["uniformBuffer"].data = <<usz[1], usz[2], p.clearFrame>>,
                   !["tempTexture"].data = tempFinal,
                   !["renderTexture"].data = CopyBack(tempFinal, rd.res["renderTexture"].data)]
        res2 == IF draw
                THEN [res1 EXCEPT
                        !["audioDataBuffer"].data = p.audioData,
                        !["colorUniformBuffer"].data = <<usz[1], usz[2], p.layout, 1>>,
                        !["msaaTexture"].data = <<MaxLevel>>,
                        !["waveformTexture"].data = <<MaxLevel>>]
                ELSE res1
        bound == {"renderTexture", "tempTexture", "uniformBuffer"}
                 \cup (IF draw THEN {"audioDataBuffer", "colorUniformBuffer",
                                     "msaaTexture", "waveformTexture"} ELSE {})
    IN IF RenderThrows(rd)
       THEN [threw |-> TRUE, rend |-> rd,
             log |-> [blurRead |-> << >>, tempFinal |-> << >>, bound |-> {},
                      stale |-> {}, created |-> 0, passes |-> << >>,
                      uploads |-> 0, submits |-> 0]]
       ELSE [threw |-> FALSE, rend |-> [rd EXCEPT !.res = res2],
             log |-> [blurRead |-> BlurInput(rd), tempFinal |-> tempFinal,
                      bound |-> bound,
                      stale |-> {k \in bound : ~rd.res[k].live},
                      created |-> IF draw THEN 3 ELSE 0, passes |-> Passes(draw),
                      uploads |-> Uploads(draw), submits |-> 1]]

(* ---------------- the color driver ---------------- *)
\* The test that triggers a re-roll (avg_r, avg_g, avg_b are numbers from
\* the start, so the isNaN tests are false).
NeedsReroll(c) ==
    \/ (c[1] - c[2] < BlandDelta /\ c[2] - c[3] < BlandDelta /\ c[3] - c[2] < BlandDelta)
    \/ (c[1] < BrightFloor /\ c[2] < BrightFloor /\ c[3] < BrightFloor)

\* while ( avg_r < 200 && avg_g < 200 && avg_b < 200 ) { re-roll all three }
LoopRuns(c) == c[1] < RerollCeiling /\ c[2] < RerollCeiling /\ c[3] < RerollCeiling

\* The triples the re-roll can end with.
Rerolled(c) ==
    IF NeedsReroll(c) /\ LoopRuns(c)
    THEN {t \in RandomBytes \X RandomBytes \X RandomBytes : ~LoopRuns(t)}
    ELSE {c}

Walk_Unclamped(v, up, down) == v + up - down
\* avg = Math.min(avg + rnd(0,20), 255); avg = Math.max(avg - rnd(0,20), 0)
Walk(v, up, down) == Max(Min(v + up, ChannelMax) - down, 0)

\* The triples one tick of the color driver can produce.
ColorTick(c) ==
    {<<Walk(t[1], u[1], d[1]), Walk(t[2], u[2], d[2]), Walk(t[3], u[3], d[3])>> :
        t \in Rerolled(c),
        u \in RandomSteps \X RandomSteps \X RandomSteps,
        d \in RandomSteps \X RandomSteps \X RandomSteps}

(* ---------------- the blur (decay) compute shader ---------------- *)
\* A texel is <<c, a>>: c the level 0..255 of a color channel (the shader
\* treats r, g and b alike), a the alpha level.  Channel arithmetic is done
\* in units of 1/Unit of a level: five successive halvings and the falloff
\* 0.005 = 51/40 of a level are whole numbers of units.
Unit == (2 ^ MixCount) * FalloffDen
Falloff == (FalloffNum * Unit) \div FalloffDen

Coords(w, h) == (0..(w - 1)) \X (0..(h - 1))
InBounds(c, w, h) == c[1] \in 0..(w - 1) /\ c[2] \in 0..(h - 1)

\* What a textureLoad outside the texture can return: zero, or the texel at
\* some coordinate inside the texture.
OobChoices(w, h) == {<<-1, -1>>} \cup Coords(w, h)

\* textureLoad(inputTex, c, 0); oob settles what an out-of-bounds load returns.
TextureLoad(tex, w, h, c, oob) ==
    IF InBounds(c, w, h) THEN tex[c]
    ELSE IF oob = <<-1, -1>> THEN <<0, 0>> ELSE tex[oob]

\* The neighbor coordinates main loads for pixel (x, y), in order: left
\* (x is unsigned, so x >= 0 always holds), up and up-left when y > 0, down
\* and down-left when y < height (which holds for every pixel that passed
\* the bounds test); the three right-hand loads are disabled by && false.
NeighborLoads(w, h, x, y) ==
    (IF x >= 0 THEN <<(<<x - 1, y>>)>> ELSE << >>)
    \o (IF y > 0
        THEN <<(<<x, y - 1>>)>> \o (IF x > 0 THEN <<(<<x - 1, y - 1>>)>> ELSE << >>)
        ELSE << >>)
    \o (IF y < h
        THEN <<(<<x, y + 1>>)>> \o (IF x > 0 THEN <<(<<x - 1, y + 1>>)>> ELSE << >>)
        ELSE << >>)

\* newColor = newColor * 0.5 + tmpColor * 0.5, neighbor after neighbor.
RECURSIVE MixAll(_, _)
MixAll(acc, ts) ==
    IF ts = << >> THEN acc
    ELSE MixAll((acc + Head(ts)) \div 2, Tail(ts))

\* textureStore to rgba8unorm: the value is rounded to the nearest level;
\* tieUp settles the rounding of a value halfway between two levels.
Quantize(u, tieUp) ==
    LET q == u \div Unit
        r == u % Unit
    IN IF 2 * r > Unit \/ (2 * r = Unit /\ tieUp) THEN Min(q + 1, UnormMax)
       ELSE Min(q, UnormMax)

\* One invocation of main: [ran, loads, out].
BlurMain(tex, w, h, x, y, clear, oob, tieUp) ==
    IF x >= w \/ y >= h
    THEN [ran |-> FALSE, loads |-> << >>, out |-> << >>]
    ELSE LET ns == NeighborLoads(w, h, x, y)
             mixed == MixAll(tex[<<x, y>>][1] * Unit,
                             [i \in 1..Len(ns) |->
                                 TextureLoad(tex, w, h, ns[i], oob)[1] * Unit])
             faded == IF clear = 1 THEN Max(mixed - Falloff, 0) ELSE Max(mixed, 0)
         IN [ran |-> TRUE, loads |-> <<(<<x, y>>)>> \o ns,
             out |-> <<Quantize(faded, tieUp), UnormMax>>]

\* The whole blur pass: the output texture, one invocation per pixel, all
\* reading the input texture.
BlurPass(tex, w, h, clear, oob, tieUp) ==
    [c \in Coords(w, h) |-> BlurMain(tex, w, h, c[1], c[2], clear, oob, tieUp).out]

CeilDiv(a, b) == (a + b - 1) \div b

(* ---------------- the waveform vertex shader ---------------- *)
\* Coordinates are in pixels, before the conversion to clip space, and the
\* uniforms are whole numbers. The arithmetic is exact: the segment length
\* is carried as its square, the perpendicular offset as its two numerators
\* over that length.
VertsPerQuad == 6
SampleBias == 128
F32ExpBias == 127
F32MantBits == 23
StrokeWidth == 1
ShadowWidth == 3

WaveLengths == {3}
SampleValues == {0, SampleBias, UnormMax}
SliceWidths == {0, 3}
LineWidths == {StrokeWidth, ShadowWidth}
HeightChunks == {1}
MidYs == {100}

RECURSIVE Log2(_)
Log2(n) == IF n < 2 THEN 0 ELSE 1 + Log2(n \div 2)

\* The bits of the 32-bit float n, read as an unsigned integer: the host
\* writes every uniform as a float, the shader declares bufferLength u32.
F32Bits(n) ==
    IF n = 0 THEN 0
    ELSE (F32ExpBias + Log2(n)) * 2^F32MantBits
         + (n - 2^Log2(n)) * 2^(F32MantBits - Log2(n))

\* draw((this.bufferLength - 1) * 6), the shadow draw and the stroke draw alike.
DrawCount_PerSample(n) == n * VertsPerQuad
DrawCount(n) == (n - 1) * VertsPerQuad

\* The elements a read outside the buffer can return: only a vertex whose
\* second sample index passes the end of the buffer has such a read.
AudioOob(n, vertexIndex) ==
    IF vertexIndex \div VertsPerQuad + 1 \in 0..(n - 1) THEN {0} ELSE 0..(n - 1)

AudioLoad_Next(audioData, n, i, oob) == audioData[(i + 1) % n]
\* audioData[i]; an index outside the buffer reads some element inside it.
AudioLoad(audioData, n, i, oob) ==
    IF i \in 0..(n - 1) THEN audioData[i] ELSE audioData[oob]

\* The end point (1 or 2) and the sign of the offset of each vertex of a quad.
QuadCorner(vertexInQuad) ==
    CASE vertexInQuad = 0 -> <<1, 1>>
      [] vertexInQuad = 1 -> <<1, -1>>
      [] vertexInQuad = 2 -> <<2, 1>>
      [] vertexInQuad = 3 -> <<2, 1>>
      [] vertexInQuad = 4 -> <<1, -1>>
      [] OTHER -> <<2, -1>>

Perp_Unguarded(dx, dy, len2, lineWidth) ==
    [num |-> <<-dy * lineWidth, dx * lineWidth>>, len2 |-> len2, divided |-> TRUE]
Perp_Unscaled(dx, dy, len2, lineWidth) ==
    IF len2 > 0 THEN [num |-> <<-dy, dx>>, len2 |-> len2, divided |-> TRUE]
    ELSE [num |-> <<0, 0>>, len2 |-> len2, divided |-> FALSE]
\* (perpX, perpY): where the division by len was made the offset is
\* (num[1] / sqrt(len2), num[2] / sqrt(len2)), otherwise it is num as it stands.
Perp(dx, dy, len2, lineWidth) ==
    IF len2 > 0
    THEN [num |-> <<-dy * lineWidth, dx * lineWidth>>, len2 |-> len2, divided |-> TRUE]
    ELSE [num |-> <<0, 0>>, len2 |-> len2, divided |-> FALSE]

NoPerp == [num |-> <<0, 0>>, len2 |-> 0, divided |-> FALSE]

\* main of the vertex shader for one vertex index. n is the length of the
\* bound sample buffer.
WaveMain(u, audioData, n, vertexIndex, oob) ==
    LET audioIndex == vertexIndex \div VertsPerQuad
        vertexInQuad == vertexIndex % VertsPerQuad
    IN IF audioIndex >= F32Bits(u.bufferLength) - 1
       THEN [vertexIndex |-> vertexIndex, ran |-> TRUE, skipped |-> TRUE,
             segment |-> audioIndex, reads |-> << >>,
             p1 |-> <<0, 0>>, p2 |-> <<0, 0>>, perp |-> NoPerp, corner |-> <<0, 0>>]
       ELSE LET value1 == AudioLoad(audioData, n, audioIndex, oob) - SampleBias
                value2 == AudioLoad(audioData, n, audioIndex + 1, oob) - SampleBias
                x1 == audioIndex * u.sliceWidth
                y1 == u.midY + value1 * u.heightChunks
                x2 == (audioIndex + 1) * u.sliceWidth
                y2 == u.midY + value2 * u.heightChunks
                dx == x2 - x1
                dy == y2 - y1
                len2 == dx * dx + dy * dy
            IN [vertexIndex |-> vertexIndex, ran |-> TRUE, skipped |-> FALSE,
                segment |-> audioIndex, reads |-> <<audioIndex, audioIndex + 1>>,
                p1 |-> <<x1, y1>>, p2 |-> <<x2, y2>>,
                perp |-> Perp(dx, dy, len2, u.lineWidth),
                corner |-> QuadCorner(vertexInQuad)]

\* The uniforms renderFrame writes for a draw.
WaveUniforms(n, midY, heightChunks, sliceWidth, lineWidth) ==
    [midY |-> midY, heightChunks |-> heightChunks, bufferLength |-> n,
     sliceWidth |-> sliceWidth, lineWidth |-> lineWidth]

\* The analyser's buffer of bufferLength samples alternating 0, 255, drawn
\* with midY 100, heightChunks 10, sliceWidth 2.
AlternatingWave(lineWidth) ==
    [u |-> WaveUniforms(bufferLength, 100, 10, 2, lineWidth),
     audioData |-> [i \in 0..(bufferLength - 1) |-> IF i % 2 = 0 THEN 0 ELSE UnormMax]]

SmallWaves ==
    UNION {{[u |-> WaveUniforms(n, m, hc, sw, lw), audioData |-> a] :
               m \in MidYs, hc \in HeightChunks, sw \in SliceWidths,
               lw \in LineWidths, a \in [0..(n - 1) -> SampleValues]} :
           n \in WaveLengths}

(* ---------------- the playlist ---------------- *)
\* A track is the number of its object URL (1, 2, ...); 0 stands for
\* undefined and for an audio element without source.  Indexes count from 0
\* as in the code.  An operator maps the state at the start of a user
\* action, or of the settling of a play() promise, to the state once the
\* handler and every microtask it started have run; a call that is waiting
\* for a play() promise is kept in pending.  Autoplay is taken as allowed
\* and the renderer as initialized.
RepeatModes == {"off", "all", "one"}

\* toggleRepeatMode
NextMode(m) == CASE m = "off" -> "all" [] m = "all" -> "one" [] OTHER -> "off"

\* playlist[i]
Track(p, i) == IF i >= 0 /\ i < Len(p) THEN p[i + 1] ELSE 0

\* playlist.splice(i, 1)
Splice(p, i) == [j \in 1..(Len(p) - 1) |-> IF j <= i THEN p[j] ELSE p[j + 1]]

\* What a suspended call does once the play() promise it waits for has
\* settled: playTrack updates the list view; remove >= 0: a removeTrack(remove)
\* call then goes on after its await.  clicked = the track that call was
\* made for, between = the user actions handled since it was suspended.
UiTail == [remove |-> -1, clicked |-> 0, between |-> {}]

NoHist == [op |-> "", clicked |-> 0, removed |-> 0, revoked |-> FALSE,
           inUse |-> FALSE, avail |-> FALSE, threw |-> FALSE, resumed |-> FALSE,
           between |-> {}]

NoPlaylist == [playlist |-> << >>, currentTrackIndex |-> -1, repeatMode |-> "off",
               src |-> 0, paused |-> TRUE, revoked |-> {}, domLen |-> 0,
               pending |-> << >>, adding |-> 0, nextId |-> 1, overlapped |-> FALSE,
               h |-> NoHist]

\* updatePlaylistUI: one item per track, each with its index at this moment.
UpdatePlaylistUI(s) == [s EXCEPT !.domLen = Len(s.playlist)]

\* changeAudioFile(filepath, autoplay) up to the await of the play() promise.
ChangeAudioFilePl(s, filepath, autoplay) == [s EXCEPT !.paused = ~autoplay, !.src = filepath]

\* playTrack(index, autoplay) and what waits for it (tail).
PlayTrack(s, index, autoplay, tail) ==
    IF index < 0 \/ index >= Len(s.playlist) THEN s
    ELSE LET s1 == ChangeAudioFilePl([s EXCEPT !.currentTrackIndex = index],
                                     Track(s.playlist, index), autoplay)
         IN IF autoplay THEN [s1 EXCEPT !.pending = Append(@, tail)]
            ELSE UpdatePlaylistUI(s1)

\* if ( index < currentTrackIndex ) currentTrackIndex--
AdjustIndex(index, cur) == IF index < cur THEN cur - 1 ELSE cur

\* removeTrack from the revocation on (lines 1326-1347).
RemoveTail(s, index) ==
    IF Track(s.playlist, index) = 0
    THEN [s EXCEPT !.h.threw = TRUE]
    ELSE LET url == Track(s.playlist, index)
             rest == Splice(s.playlist, index)
         IN UpdatePlaylistUI(
              [s EXCEPT !.revoked = @ \cup {url},
                        !.playlist = rest,
                        !.currentTrackIndex =
                            IF Len(rest) = 0 THEN -1
                            ELSE AdjustIndex(index, s.currentTrackIndex),
                        !.h.revoked = TRUE,
                        !.h.inUse = (s.src = url),
                        !.h.avail = Len(s.playlist) > 1,
                        !.h.removed = url])

\* playNext skipping a track.
NextIndex_Skip(cur) == cur + 2

\* playTrack(currentTrackIndex + 1)
NextIndex(cur) == cur + 1

\* playNext called from a button, the media session or the 'ended' event.
PlayNext(s) ==
    LET n == Len(s.playlist)
        cur == s.currentTrackIndex
    IN IF n = 0 \/ cur < 0 THEN s
       ELSE IF s.repeatMode = "one" THEN [s EXCEPT !.paused = FALSE]
       ELSE IF cur = n - 1
       THEN IF s.repeatMode = "all" THEN PlayTrack(s, 0, TRUE, UiTail) ELSE s
       ELSE PlayTrack(s, NextIndex(cur), TRUE, UiTail)

\* playPrevious
PlayPrevious(s) ==
    IF Len(s.playlist) = 0 \/ s.currentTrackIndex = 0 THEN s
    ELSE PlayTrack(s, s.currentTrackIndex - 1, TRUE, UiTail)

\* removeTrack(index).  Removing the current track of several: on the last
\* track without repeat 'all' the previous track is loaded and awaited; with
\* repeat 'all' on the last track playNext awaits playTrack(0), and
\* removeTrack goes on when the play() promise has settled; in repeat 'one'
\* playNext restarts the track and returns; otherwise playNext calls
\* playTrack(currentTrackIndex + 1) without awaiting it, so that
\* removeTrack goes on after playTrack has set currentTrackIndex and paused
\* the element, before changeAudioFile assigns the new source.
RemoveTrack(s, index) ==
    LET n == Len(s.playlist)
        cur == s.currentTrackIndex
    IN IF index # cur THEN RemoveTail(s, index)
       ELSE IF n <= 1 THEN RemoveTail([s EXCEPT !.paused = TRUE], index)
       ELSE IF index = n - 1 /\ s.repeatMode # "all"
       THEN RemoveTail(PlayTrack(s, index - 1, FALSE, UiTail), index)
       ELSE IF s.repeatMode = "one"
       THEN RemoveTail([s EXCEPT !.paused = FALSE], index)
       ELSE IF cur = n - 1
       THEN PlayTrack(s, 0, TRUE, [remove |-> index, clicked |-> s.h.clicked, between |-> {}])
       ELSE IF NextIndex(cur) >= n THEN RemoveTail(s, index)
       ELSE LET next == Track(s.playlist, NextIndex(cur))
                s1 == [s EXCEPT !.currentTrackIndex = NextIndex(cur), !.paused = TRUE]
                s2 == RemoveTail(s1, index)
            IN [s2 EXCEPT !.src = next, !.paused = FALSE, !.pending = Append(@, UiTail)]

\* clearPlaylist, confirmed.
ClearPlaylist(s) ==
    UpdatePlaylistUI([s EXCEPT !.paused = TRUE,
                               !.revoked = @ \cup {s.playlist[j] : j \in DOMAIN s.playlist},
                               !.playlist = << >>,
                               !.currentTrackIndex = -1])

\* addTracksToPlaylist(files) from the end of one parseBlob to the next
\* await: the track of the parsed file is pushed; after the last file, with
\* no current track playTrack(0) is awaited, and the list view is updated.
AddTracksToPlaylist(s) ==
    LET s1 == [s EXCEPT !.playlist = Append(@, s.nextId),
                        !.nextId = @ + 1,
                        !.adding = @ - 1]
    IN IF s1.adding > 0 THEN s1
       ELSE IF s1.currentTrackIndex = -1 /\ Len(s1.playlist) > 0
       THEN PlayTrack(s1, 0, TRUE, UiTail)
       ELSE UpdatePlaylistUI(s1)

\* The dataset.index values of the items in document order after the item
\* at position from was dragged to position to.
DropOrder(len, from, to) ==
    [j \in 1..len |->
        LET k == j - 1 IN
        IF k = to THEN from
        ELSE IF from < to /\ k >= from /\ k < to THEN k + 1
        ELSE IF to < from /\ k > to /\ k <= from THEN k - 1
        ELSE k]

\* handleDrop: the playlist rebuilt in the order of the items.
HandleDrop(s, order) ==
    LET newPlaylist == [j \in 1..Len(order) |-> Track(s.playlist, order[j])]
        hits == {j \in 1..Len(order) : order[j] = s.currentTrackIndex}
        newCurrentIndex == IF hits = {} THEN -1 ELSE (CHOOSE j \in hits : TRUE) - 1
    IN UpdatePlaylistUI([s EXCEPT !.playlist = newPlaylist,
                                  !.currentTrackIndex = newCurrentIndex])

\* A click handler of an item's title.
ItemClick(s, index) ==
    IF index # s.currentTrackIndex THEN PlayTrack(s, index, TRUE, UiTail)
    ELSE IF s.paused THEN [s EXCEPT !.paused = FALSE] ELSE s

(* ---------------- state ---------------- *)
VARIABLES
    pc,             \* progress of appSetup / setupWebGPURenderer
    renderer,       \* the host's renderer variable is non-null
    rend,           \* the fields of the WebGPURenderer object
    leaked,         \* resources of earlier resizeCanvas calls still live
    client,         \* canvas.clientWidth, canvas.clientHeight
    canvas,         \* canvas.width, canvas.height (<<0, 0>> = not yet set by the program)
    layout,         \* canvas size that mid_y, sliceWidth, heightChunks were computed from
    initCalls,      \* invocations of renderer.initialize
    notices,        \* 'WebGPU Initialization Error' notifications shown
    audioPaused,    \* audio.paused
    audioSrc,       \* audio.src (0 = empty)
    context,        \* the AudioContext / analyser has been set up
    playEvents,     \* 'play' events queued on the audio element
    rafQueue,       \* frameLooper callbacks requested for the next frame
    rafBatch,       \* callbacks of the running animation frame not yet run
    now,            \* timestamp of the current animation frame
    lastFrameTime,
    clearFrame,
    updateWaveform,
    avg,            \* <<avg_r, avg_g, avg_b>>
    dataArray,      \* contents of dataArray (0 = the initial zeros)
    step,           \* what the last handler did
    tickPending,    \* an update-waveform tick has fired since the last sample upload
    prevTemp,       \* temp surface at the end of the previous renderFrame since the last resize
    inputTex,       \* blur shader: width, height and texels of the input texture
    kernel,         \* blur shader: the last invocation of main
    decay,          \* blur shader: passes applied in a row, first and previous input
    wave,           \* vertex shader: the uniforms and the sample buffer of the draw
    vertex,         \* vertex shader: the last invocation of main
    color,          \* color driver: position in the update block and the triple
    rdr,            \* renderer on its own: the object, its canvas and the buffers frames left behind
    pl              \* playlist: playlist, currentTrackIndex, repeatMode, the audio element, suspended calls

vars == <<pc, renderer, rend, leaked, client, canvas, layout, initCalls,
          notices, audioPaused, audioSrc, context, playEvents, rafQueue, rafBatch,
          now, lastFrameTime, clearFrame, updateWaveform, avg, dataArray, step, tickPending,
          prevTemp, inputTex, kernel, decay, wave, vertex, color, rdr, pl>>

rendererVars == <<rend, leaked, canvas, layout, prevTemp>>
setupVars == <<pc, renderer, initCalls, notices>>
audioVars == <<audioPaused, audioSrc, context, playEvents>>
frameVars == <<lastFrameTime, clearFrame, updateWaveform, avg, dataArray, tickPending>>
rafVars == <<rafQueue, rafBatch, now>>
blurVars == <<inputTex, kernel, decay>>
waveVars == <<wave, vertex>>
calcVars == <<blurVars, waveVars, color, rdr, pl>>
progVars == <<pc, renderer, rend, leaked, client, canvas, layout, initCalls,
              notices, audioPaused, audioSrc, context, playEvents, rafQueue, rafBatch,
              now, lastFrameTime, clearFrame, updateWaveform, avg, dataArray, step,
              tickPending, prevTemp>>

NoLog == [blurRead |-> << >>, tempFinal |-> << >>, bound |-> {}, stale |-> {},
          created |-> 0, passes |-> << >>, uploads |-> 0, submits |-> 0]

\* The record of a handler run: renders = the parameters of each renderFrame
\* call, acquired = getByteTimeDomainData calls, ticks = color driver ticks,
\* requested = requestAnimationFrame calls, invoked = renderer.resizeCanvas
\* calls, resized = those that returned, threw = the handler ended with an
\* uncaught error, unticked = sample uploads made with no update-waveform
\* tick since the upload before.
Did(op) == [op |-> op, outcome |-> "", renders |-> << >>, log |-> NoLog, acquired |-> 0,
            ticks |-> 0, requested |-> 0, invoked |-> 0, resized |-> 0, threw |-> FALSE,
            unticked |-> 0, expect |-> << >>]

Idle == Did("")

NoKernel == [x |-> 0, y |-> 0, clear |-> 0, ran |-> FALSE, loads |-> << >>, out |-> << >>]

NoDecay == [n |-> 0, first |-> << >>, prev |-> << >>]

NoColor == [pc |-> "idle", c |-> <<0, 0, 0>>, before |-> <<0, 0, 0>>,
            triggered |-> FALSE, rerolled |-> FALSE, ticks |-> 0]

NoGpu == [rend |-> NewRenderer, canvas |-> <<0, 0>>, leaked |-> {}, orphans |-> 0,
          frames |-> 0]

NoWave == [u |-> WaveUniforms(0, 0, 0, 0, 0), audioData |-> << >>]

NoVertex == [vertexIndex |-> 0, ran |-> FALSE, skipped |-> FALSE, segment |-> 0,
             reads |-> << >>, p1 |-> <<0, 0>>, p2 |-> <<0, 0>>, perp |-> NoPerp,
             corner |-> <<0, 0>>]

ProgInit ==
    /\ pc = "load"
    /\ renderer = FALSE
    /\ rend = NewRenderer
    /\ leaked = {}
    /\ client \in LogicalSizes
    /\ canvas = <<0, 0>>
    /\ layout = <<0, 0>>
    /\ initCalls = 0
    /\ notices = 0
    /\ audioPaused = TRUE
    /\ audioSrc = 0
    /\ context = FALSE
    /\ playEvents = 0
    /\ rafQueue = 0
    /\ rafBatch = 0
    /\ now = 0
    /\ lastFrameTime = 0
    /\ clearFrame = 0
    /\ updateWaveform = 0
    /\ avg = <<0, 0, 0>>
    /\ dataArray = 0
    /\ step = Idle
    /\ tickPending = FALSE
    /\ prevTemp = << >>

\* The application; no shader invocation is followed.
Init ==
    /\ ProgInit
    /\ inputTex = [w |-> 0, h |-> 0, tex |-> << >>]
    /\ kernel = NoKernel
    /\ decay = NoDecay
    /\ wave = NoWave
    /\ vertex = NoVertex
    /\ color = NoColor
    /\ rdr = NoGpu
    /\ pl = NoPlaylist

SetupDone == pc \in {"ready", "failed"}
Listening == pc \in {"adapter", "device", "ready", "failed"}
Quiet == rafBatch = 0

(* ---------------- set-up ---------------- *)
\* catch (error) { notyf.error('WebGPU Initialization Error: ...'); return; }
\* after which appSetup registers the handlers and starts the timers.
\* A catch block that swallows the error.
SetupFailed_Silent ==
    /\ notices' = notices
    /\ pc' = "failed"

SetupFailed ==
    /\ notices' = notices + 1
    /\ pc' = "failed"

\* appSetup -> setupWebGPURenderer: the resize listeners are registered, the
\* renderer is constructed and initialize runs up to requestAdapter, or
\* throws at once when navigator.gpu is missing.
BeginSetup ==
    /\ UNCHANGED calcVars
    /\ pc = "load"
    /\ renderer' = TRUE
    /\ initCalls' = initCalls + 1
    /\ rend' = [rend EXCEPT !.canvas = TRUE, !.bufferLength = bufferLength]
    /\ \E gpu \in BOOLEAN :
          IF gpu THEN pc' = "adapter" /\ notices' = notices
          ELSE SetupFailed
    /\ step' = Idle
    /\ UNCHANGED <<leaked, client, canvas, layout, prevTemp>>
    /\ UNCHANGED <<audioVars, frameVars, rafVars>>

\* requestAdapter resolves, with an adapter or with null.
AdapterResolved ==
    /\ UNCHANGED calcVars
    /\ pc = "adapter"
    /\ \E adapter \in BOOLEAN :
          IF adapter THEN pc' = "device" /\ notices' = notices
          ELSE SetupFailed
    /\ step' = Idle
    /\ UNCHANGED <<renderer, initCalls, rendererVars, client>>
    /\ UNCHANGED <<audioVars, frameVars, rafVars>>

\* initCopyPipeline creating the copy pipeline only.
BuiltPipelines_NoComposite == Pipelines \ {"compositePipeline"}

\* The pipelines initWebGPUPipelines and initCopyPipeline create.
BuiltPipelines == Pipelines

\* requestDevice settles; on success initialize configures the context,
\* builds the pipelines and returns.
DeviceResolved ==
    /\ UNCHANGED calcVars
    /\ pc = "device"
    /\ \E dev \in BOOLEAN :
          IF dev
          THEN /\ rend' = [rend EXCEPT !.device = TRUE, !.alphaMode = "opaque",
                              !.built = [q \in Pipelines |->
                                  IF q \in BuiltPipelines THEN rend.built[q] + 1
                                  ELSE rend.built[q]]]
               /\ pc' = "initialized"
               /\ notices' = notices
          ELSE /\ rend' = rend
               /\ SetupFailed
    /\ step' = Did("initialize")
    /\ UNCHANGED <<renderer, initCalls, leaked, canvas, layout, prevTemp, client>>
    /\ UNCHANGED <<audioVars, frameVars, rafVars>>

\* The host's resizeCanvas(), r being what renderer.resizeCanvas() does:
\* [threw, invoked, resized, rend, canvas, leaked, layout].
HostResize(r) ==
    IF ~renderer
    THEN [threw |-> FALSE, invoked |-> 0, resized |-> 0, rend |-> rend, canvas |-> canvas,
          leaked |-> leaked, layout |-> layout]
    ELSE [threw |-> r.threw, invoked |-> 1, resized |-> IF r.threw THEN 0 ELSE 1,
          rend |-> r.rend,
          canvas |-> r.canvas, leaked |-> r.leaked,
          layout |-> IF r.threw THEN layout ELSE r.canvas]

ApplyResize(r) ==
    /\ rend' = r.rend
    /\ canvas' = r.canvas
    /\ leaked' = r.leaked
    /\ prevTemp' = IF r.threw THEN prevTemp ELSE << >>

\* setupWebGPURenderer resumes after await renderer.initialize(...) and
\* calls resizeCanvas(); appSetup then registers the handlers and timers.
HostInitialResize ==
    /\ UNCHANGED calcVars
    /\ pc = "initialized"
    /\ LET h == HostResize(RendererResize(rend, client, leaked)) IN
          /\ ApplyResize(h)
          /\ layout' = h.layout
          /\ step' = [Did("initialResize") EXCEPT !.invoked = h.invoked,
                          !.resized = h.resized, !.threw = h.threw]
    /\ pc' = "ready"
    /\ UNCHANGED <<renderer, initCalls, notices, client>>
    /\ UNCHANGED <<audioVars, frameVars, rafVars>>

(* ---------------- resize events ---------------- *)
\* The window is resized (the canvas follows it) and the handler of window
\* 'resize', 'orientationchange' (after its timeout) or visualViewport
\* 'resize' runs the host's resizeCanvas.
WindowResize ==
    /\ UNCHANGED calcVars
    /\ Quiet
    /\ Listening
    /\ \E sz \in LogicalSizes : client' = sz
    /\ LET r == RendererResize(rend, client', leaked)
           h == HostResize(r) IN
          /\ ApplyResize(h)
          /\ layout' = h.layout
          /\ step' = [Did("resize") EXCEPT !.invoked = h.invoked,
                          !.resized = h.resized, !.threw = h.threw]
    /\ UNCHANGED <<setupVars, audioVars, frameVars, rafVars>>

(* ---------------- timers ---------------- *)
\* setInterval( () => { clearFrame = 1; }, 100)
ClearTimer ==
    /\ UNCHANGED calcVars
    /\ Quiet
    /\ SetupDone
    /\ clearFrame' = 1
    /\ step' = Did("clearTimer")
    /\ UNCHANGED <<setupVars, rendererVars, client, audioVars, rafVars>>
    /\ UNCHANGED <<lastFrameTime, updateWaveform, avg, dataArray, tickPending>>

\* setInterval( () => { updateWaveform = 1; }, 50)
UpdateTimer ==
    /\ UNCHANGED calcVars
    /\ Quiet
    /\ SetupDone
    /\ updateWaveform' = 1
    /\ tickPending' = TRUE
    /\ step' = Did("updateTimer")
    /\ UNCHANGED <<setupVars, rendererVars, client, audioVars, rafVars>>
    /\ UNCHANGED <<lastFrameTime, clearFrame, avg, dataArray>>

(* ---------------- the audio element ---------------- *)
\* audio.play() on a paused element (play button, media session, playlist
\* click, slider mouseup): paused becomes false and 'play' is queued.
Play ==
    /\ UNCHANGED calcVars
    /\ Quiet
    /\ SetupDone
    /\ audioPaused
    /\ playEvents < MaxEvents
    /\ audioPaused' = FALSE
    /\ playEvents' = playEvents + 1
    /\ step' = Idle
    /\ UNCHANGED <<setupVars, rendererVars, client, frameVars, rafVars>>
    /\ UNCHANGED <<audioSrc, context>>

\* audio.pause() (pause button, slider mousedown), or the track ends.
Pause ==
    /\ UNCHANGED calcVars
    /\ Quiet
    /\ SetupDone
    /\ ~audioPaused
    /\ audioPaused' = TRUE
    /\ step' = Idle
    /\ UNCHANGED <<setupVars, rendererVars, client, frameVars, rafVars>>
    /\ UNCHANGED <<audioSrc, context, playEvents>>

\* A 'play' handler with the source test inverted, and one without it.
PlayRequests_Inverted(src) == src = 0
PlayRequests_Unguarded(src) == TRUE

\* Does the 'play' handler reach requestAnimationFrame?
PlayRequests(src) == src # 0

\* audio.addEventListener('play', ...)
PlayEvent ==
    /\ UNCHANGED calcVars
    /\ Quiet
    /\ playEvents > 0
    /\ playEvents' = playEvents - 1
    /\ IF PlayRequests(audioSrc)
       THEN /\ rafQueue + rafBatch < MaxPending
            /\ context' = TRUE
            /\ rafQueue' = rafQueue + 1
            /\ step' = [Did("playEvent") EXCEPT !.requested = 1]
       ELSE /\ UNCHANGED <<context, rafQueue>>
            /\ step' = [Did("playEvent") EXCEPT !.outcome = "nosrc"]
    /\ UNCHANGED <<setupVars, rendererVars, client, frameVars>>
    /\ UNCHANGED <<audioPaused, audioSrc, rafBatch, now>>

\* changeAudioFile(filepath, autoplay) up to the await of the play promise:
\* pause, renderer.resizeCanvas(), set the source, load, play.  allowed =
\* the browser's autoplay policy lets play() start.
ChangeAudioFile ==
    /\ UNCHANGED calcVars
    /\ Quiet
    /\ SetupDone
    /\ \E f \in Files, autoplay \in BOOLEAN, allowed \in BOOLEAN :
          LET r == RendererResize(rend, client, leaked)
              starts == autoplay /\ allowed
          IN /\ ApplyResize(r)
             /\ IF r.threw
                THEN /\ audioPaused' = TRUE
                     /\ UNCHANGED <<audioSrc, playEvents>>
                ELSE /\ audioSrc' = f
                     /\ audioPaused' = ~starts
                     /\ IF starts
                        THEN playEvents < MaxEvents /\ playEvents' = playEvents + 1
                        ELSE playEvents' = playEvents
             /\ step' = [Did("changeAudioFile") EXCEPT !.invoked = 1,
                            !.resized = IF r.threw THEN 0 ELSE 1, !.threw = r.threw]
    /\ UNCHANGED <<setupVars, layout, client, context, frameVars, rafVars>>

(* ---------------- animation frames ---------------- *)
\* The browser starts an animation frame: the callbacks requested so far
\* form its batch and share its timestamp.  Timestamps are kept relative to
\* a sliding origin, so that only now - lastFrameTime is preserved once now
\* reaches MaxTime (an elapsed time beyond MaxTime is recorded as MaxTime).
BeginFrame ==
    /\ UNCHANGED calcVars
    /\ Quiet
    /\ \E d \in FrameSteps :
          LET shift == Max(now + d - MaxTime, 0) IN
             /\ now' = now + d - shift
             /\ lastFrameTime' = Max(lastFrameTime - shift, 0)
    /\ rafBatch' = rafQueue
    /\ rafQueue' = 0
    /\ step' = Idle
    /\ UNCHANGED <<setupVars, rendererVars, client, audioVars>>
    /\ UNCHANGED <<clearFrame, updateWaveform, avg, dataArray, tickPending>>

\* No cap at all.
Capped_Off(currentTime, last) == FALSE

\* The cap with <= in place of <.
Capped_Inclusive(currentTime, last) == currentTime - last <= TargetFrameTime

\* if (deltaTime < targetFrameTime) return requestAnimationFrame(frameLooper)
Capped(currentTime, last) == currentTime - last < TargetFrameTime

\* A frame that resets the clear flag only.
ResetFlags_ClearOnly(c, u) == <<0, u>>

\* The flags as handed to renderFrame, and as left after the frame.
PassedFlags(c, u) == <<c, u>>
ResetFlags(c, u) == <<0, 0>>

\* Samples acquired and the color driver ticked on every accepted frame.
Updates_Always(u) == TRUE

\* if (updateWaveform) { acquire samples; tick the color driver }
Updates(u) == u = 1

\* renderFrame raising an error when it acquires the canvas texture, before
\* anything has been written or recorded.
RenderFrameFailing(rd) == [threw |-> TRUE, rend |-> rd, log |-> NoLog]

\* One frameLooper callback; fault = renderFrame raises an error in it.
FrameCallback(fault) ==
    /\ UNCHANGED calcVars
    /\ rafBatch > 0
    /\ rafBatch' = rafBatch - 1
    /\ now' = now
    /\ IF audioPaused
       THEN /\ step' = [Did("frameLooper") EXCEPT !.outcome = "paused"]
            /\ UNCHANGED <<rafQueue, frameVars, rendererVars>>
       ELSE IF Capped(now, lastFrameTime)
       THEN /\ rafQueue' = rafQueue + 1
            /\ step' = [Did("frameLooper") EXCEPT !.outcome = "capped", !.requested = 1]
            /\ UNCHANGED <<frameVars, rendererVars>>
       ELSE /\ lastFrameTime' = now
            /\ \E s \in Snapshots, c \in ColorTick(avg) :
                  LET upd == Updates(updateWaveform)
                      flags == PassedFlags(clearFrame, updateWaveform)
                      p == [clearFrame |-> flags[1], updateWaveform |-> flags[2],
                            audioData |-> IF upd THEN <<s>> ELSE << >>,
                            colorRGB |-> IF upd THEN c ELSE avg,
                            layout |-> layout]
                      r == IF fault THEN RenderFrameFailing(rend)
                           ELSE RenderFrame(rend, canvas, p)
                      after == ResetFlags(clearFrame, updateWaveform)
                  IN /\ dataArray' = IF upd THEN s ELSE dataArray
                     /\ avg' = IF upd THEN c ELSE avg
                     /\ rend' = r.rend
                     /\ tickPending' = (tickPending /\ r.log.uploads = 0)
                     /\ prevTemp' = IF r.threw THEN prevTemp ELSE r.log.tempFinal
                     /\ clearFrame' = IF r.threw THEN clearFrame ELSE after[1]
                     /\ updateWaveform' = IF r.threw THEN updateWaveform ELSE after[2]
                     /\ rafQueue' = IF r.threw THEN rafQueue ELSE rafQueue + 1
                     /\ step' = [Did("frameLooper") EXCEPT
                                   !.outcome = "accepted", !.renders = <<p>>, !.log = r.log,
                                   !.acquired = IF upd THEN 1 ELSE 0,
                                   !.ticks = IF upd THEN 1 ELSE 0,
                                   !.requested = IF r.threw THEN 0 ELSE 1,
                                   !.unticked = IF tickPending THEN 0 ELSE r.log.uploads,
                                   !.threw = r.threw, !.expect = prevTemp]
            /\ UNCHANGED <<leaked, canvas, layout>>
    /\ UNCHANGED <<setupVars, client, audioVars>>

FrameLooper == FrameCallback(FALSE)

\* An accepted frame on which renderFrame raises an error.
FrameLooperFault ==
    /\ ~audioPaused
    /\ ~Capped(now, lastFrameTime)
    /\ FrameCallback(TRUE)

Next ==
    \/ BeginSetup
    \/ AdapterResolved
    \/ DeviceResolved
    \/ HostInitialResize
    \/ WindowResize
    \/ ClearTimer
    \/ UpdateTimer
    \/ Play
    \/ Pause
    \/ PlayEvent
    \/ ChangeAudioFile
    \/ BeginFrame
    \/ FrameLooper

Spec == Init /\ [][Next]_vars

\* Animation frames keep coming, their callbacks run, and queued events
\* are dispatched.
LiveSpec ==
    Spec /\ WF_vars(BeginFrame) /\ WF_vars(FrameLooper) /\ WF_vars(PlayEvent)

\* The program in an environment where a renderFrame call can fail.
FaultNext == Next \/ FrameLooperFault

FaultSpec ==
    Init /\ [][FaultNext]_vars
         /\ WF_vars(BeginFrame) /\ WF_vars(FrameLooper) /\ WF_vars(PlayEvent)

(* ---------------- the blur shader on its own ---------------- *)
\* The input textures: every size, every assignment of levels to the
\* texels, alpha the same everywhere (0 in a texture just created, 255 in
\* one written by an earlier pass).
BlurInit ==
    /\ ProgInit
    /\ \E sz \in ShaderSizes, a \in TexelAlphas :
          \E t \in [Coords(sz[1], sz[2]) -> TexelLevels] :
             inputTex = [w |-> sz[1], h |-> sz[2],
                         tex |-> [c \in Coords(sz[1], sz[2]) |-> <<t[c], a>>]]
    /\ kernel = NoKernel
    /\ decay = NoDecay
    /\ wave = NoWave
    /\ vertex = NoVertex
    /\ color = NoColor
    /\ rdr = NoGpu
    /\ pl = NoPlaylist

\* One invocation of the blur shader's main on the input texture; the
\* dispatch is rounded up to whole workgroups, so ids outside the texture
\* occur too.
BlurInvocation ==
    /\ kernel = NoKernel
    /\ \E x \in 0..inputTex.w, y \in 0..inputTex.h, clear \in {0, 1},
          oob \in OobChoices(inputTex.w, inputTex.h), tieUp \in BOOLEAN :
          LET r == BlurMain(inputTex.tex, inputTex.w, inputTex.h, x, y, clear, oob, tieUp)
          IN kernel' = [x |-> x, y |-> y, clear |-> clear, ran |-> r.ran,
                        loads |-> r.loads, out |-> r.out]
    /\ UNCHANGED <<progVars, inputTex, decay, waveVars, color, rdr, pl>>

BlurNext == BlurInvocation

BlurSpec == BlurInit /\ [][BlurNext]_vars

(* ---------------- repeated decay ---------------- *)
\* A surface left by an earlier frame (alpha 255 everywhere).
DecayInit ==
    /\ ProgInit
    /\ \E sz \in DecaySizes :
          \E t \in [Coords(sz[1], sz[2]) -> DecayLevels] :
             /\ inputTex = [w |-> sz[1], h |-> sz[2],
                            tex |-> [c \in Coords(sz[1], sz[2]) |-> <<t[c], UnormMax>>]]
             /\ decay = [n |-> 0, first |-> inputTex.tex, prev |-> inputTex.tex]
    /\ kernel = NoKernel
    /\ wave = NoWave
    /\ vertex = NoVertex
    /\ color = NoColor
    /\ rdr = NoGpu
    /\ pl = NoPlaylist

\* A frame with clearFrame = 1 and no waveform: the blur pass writes the
\* temp surface, which is copied back and is the input of the next frame.
DecayPass ==
    /\ decay.n < MaxPasses
    /\ \E oob \in OobChoices(inputTex.w, inputTex.h), tieUp \in BOOLEAN :
          inputTex' = [inputTex EXCEPT
                         !.tex = BlurPass(inputTex.tex, inputTex.w, inputTex.h, 1, oob, tieUp)]
    /\ decay' = [decay EXCEPT !.n = decay.n + 1, !.prev = inputTex.tex]
    /\ UNCHANGED <<progVars, kernel, waveVars, color, rdr, pl>>

DecayNext == DecayPass

DecaySpec == DecayInit /\ [][DecayNext]_vars

(* ---------------- the vertex shader on its own ---------------- *)
\* A waveform draw: its uniforms and the sample buffer bound to it.
WaveInit ==
    /\ ProgInit
    /\ inputTex = [w |-> 0, h |-> 0, tex |-> << >>]
    /\ kernel = NoKernel
    /\ decay = NoDecay
    /\ wave \in SmallWaves \cup {AlternatingWave(lw) : lw \in LineWidths}
    /\ vertex = NoVertex
    /\ color = NoColor
    /\ rdr = NoGpu
    /\ pl = NoPlaylist

\* One invocation of the vertex shader's main, for a vertex index of the draw.
VertexInvocation ==
    /\ ~vertex.ran
    /\ \E k \in 0..(DrawCount(wave.u.bufferLength) - 1) :
       \E oob \in AudioOob(wave.u.bufferLength, k) :
          vertex' = WaveMain(wave.u, wave.audioData, wave.u.bufferLength, k, oob)
    /\ UNCHANGED <<progVars, blurVars, wave, color, rdr, pl>>

WaveNext == VertexInvocation

WaveSpec == WaveInit /\ [][WaveNext]_vars

(* ---------------- the renderer on its own ---------------- *)
\* A renderer whose initialize has returned, driven by any sequence of
\* resizeCanvas and renderFrame calls.  orphans counts the buffers that
\* renderFrame calls created with device.createBuffer: no code destroys them.
GpuInit ==
    /\ ProgInit
    /\ inputTex = [w |-> 0, h |-> 0, tex |-> << >>]
    /\ kernel = NoKernel
    /\ decay = NoDecay
    /\ wave = NoWave
    /\ vertex = NoVertex
    /\ color = NoColor
    /\ rdr = [NoGpu EXCEPT !.rend = [NewRenderer EXCEPT
                  !.device = TRUE, !.alphaMode = "opaque",
                  !.built = [q \in Pipelines |-> IF q \in BuiltPipelines THEN 1 ELSE 0]]]
    /\ pl = NoPlaylist

GpuResize ==
    /\ \E sz \in LogicalSizes :
          LET r == RendererResize(rdr.rend, sz, rdr.leaked)
          IN rdr' = [rdr EXCEPT !.rend = r.rend, !.canvas = r.canvas, !.leaked = r.leaked]
    /\ UNCHANGED <<progVars, blurVars, waveVars, color, pl>>

GpuRender ==
    /\ rdr.frames < MaxFrames
    /\ \E clear \in {0, 1}, upd \in {0, 1}, s \in Snapshots, c \in ColorStarts :
          LET p == [clearFrame |-> clear, updateWaveform |-> upd,
                    audioData |-> IF upd = 1 THEN <<s>> ELSE << >>,
                    colorRGB |-> c, layout |-> rdr.canvas]
              r == RenderFrame(rdr.rend, rdr.canvas, p)
          IN rdr' = [rdr EXCEPT !.rend = r.rend,
                                !.orphans = rdr.orphans + r.log.created,
                                !.frames = rdr.frames + 1]
    /\ UNCHANGED <<progVars, blurVars, waveVars, color, pl>>

GpuNext == GpuResize \/ GpuRender

GpuSpec == GpuInit /\ [][GpuNext]_vars

\* Buffers and textures created and not destroyed.
GpuLive ==
    Cardinality({k \in Kinds : rdr.rend.res[k].live}) + Cardinality(rdr.leaked) + rdr.orphans

(* ---------------- the playlist on its own ---------------- *)
PlaylistInit ==
    /\ ProgInit
    /\ inputTex = [w |-> 0, h |-> 0, tex |-> << >>]
    /\ kernel = NoKernel
    /\ decay = NoDecay
    /\ wave = NoWave
    /\ vertex = NoVertex
    /\ color = NoColor
    /\ rdr = NoGpu
    /\ pl = NoPlaylist

\* The start of a user action: what it was made on, and a note of it in
\* every suspended removeTrack call.
Begin(op, index) ==
    [pl EXCEPT !.h = [NoHist EXCEPT !.op = op,
                         !.clicked = Track(pl.playlist, index)],
               !.overlapped = pl.overlapped \/ pl.pending # << >> \/ pl.adding > 0,
               !.pending = [j \in DOMAIN pl.pending |->
                               IF pl.pending[j].remove >= 0
                               THEN [pl.pending[j] EXCEPT !.between = @ \cup {op}]
                               ELSE pl.pending[j]]]

CanAct == Len(pl.pending) < MaxInFlight

\* Files are chosen: addTracksToPlaylist starts and waits for parseBlob of
\* the first file.  The loading notice is shown meanwhile; no handler looks
\* at it.
AddFiles ==
    /\ CanAct
    /\ pl.adding = 0
    /\ \E count \in 1..MaxFiles :
          /\ pl.nextId + count - 1 <= MaxTracks
          /\ pl' = [Begin("addTracksToPlaylist", -1) EXCEPT !.adding = count]
    /\ UNCHANGED <<progVars, blurVars, waveVars, color, rdr>>

\* parseBlob has read the tags of a file, or failed.
FileParsed ==
    /\ pl.adding > 0
    /\ pl.adding = 1 => CanAct
    /\ pl' = AddTracksToPlaylist([pl EXCEPT !.h = [NoHist EXCEPT !.op = "parseBlob"]])
    /\ UNCHANGED <<progVars, blurVars, waveVars, color, rdr>>

RemoveClick ==
    /\ CanAct
    /\ \E index \in 0..(pl.domLen - 1) :
          pl' = RemoveTrack(Begin("removeTrack", index), index)
    /\ UNCHANGED <<progVars, blurVars, waveVars, color, rdr>>

ClearClick ==
    /\ CanAct
    /\ Len(pl.playlist) > 0
    /\ pl' = ClearPlaylist(Begin("clearPlaylist", -1))
    /\ UNCHANGED <<progVars, blurVars, waveVars, color, rdr>>

TitleClick ==
    /\ CanAct
    /\ \E index \in 0..(pl.domLen - 1) :
          pl' = ItemClick(Begin("playTrack", index), index)
    /\ UNCHANGED <<progVars, blurVars, waveVars, color, rdr>>

NextClick ==
    /\ CanAct
    /\ pl' = PlayNext(Begin("playNext", -1))
    /\ UNCHANGED <<progVars, blurVars, waveVars, color, rdr>>

PreviousClick ==
    /\ CanAct
    /\ pl' = PlayPrevious(Begin("playPrevious", -1))
    /\ UNCHANGED <<progVars, blurVars, waveVars, color, rdr>>

RepeatClick ==
    /\ pl' = [pl EXCEPT !.repeatMode = NextMode(@)]
    /\ UNCHANGED <<progVars, blurVars, waveVars, color, rdr>>

PauseClick ==
    /\ pl.src # 0
    /\ ~pl.paused
    /\ pl' = [pl EXCEPT !.paused = TRUE]
    /\ UNCHANGED <<progVars, blurVars, waveVars, color, rdr>>

DropItem ==
    /\ CanAct
    /\ \E from \in 0..(pl.domLen - 1), to \in 0..(pl.domLen - 1) :
          pl' = HandleDrop(Begin("handleDrop", from), DropOrder(pl.domLen, from, to))
    /\ UNCHANGED <<progVars, blurVars, waveVars, color, rdr>>

\* The oldest pending play() promise settles and the calls waiting for it
\* go on: playTrack updates the list view, then a waiting removeTrack runs
\* from its await on.
PlaySettles ==
    /\ pl.pending # << >>
    /\ LET t == Head(pl.pending)
           s0 == [pl EXCEPT !.pending = Tail(@),
                            !.h = [NoHist EXCEPT !.op = "settle",
                                      !.clicked = t.clicked,
                                      !.resumed = t.remove >= 0,
                                      !.between = t.between]]
           s1 == UpdatePlaylistUI(s0)
       IN pl' = IF t.remove >= 0 THEN RemoveTail(s1, t.remove) ELSE s1
    /\ UNCHANGED <<progVars, blurVars, waveVars, color, rdr>>

PlaylistNext ==
    \/ AddFiles
    \/ FileParsed
    \/ RemoveClick
    \/ ClearClick
    \/ TitleClick
    \/ NextClick
    \/ PreviousClick
    \/ RepeatClick
    \/ PauseClick
    \/ DropItem
    \/ PlaySettles

PlaylistSpec == PlaylistInit /\ [][PlaylistNext]_vars

\* No call is suspended; and none was started while another was.
AllDone == pl.pending = << >> /\ pl.adding = 0

Settled == AllDone /\ ~pl.overlapped

(* ---------------- the color driver step by step ---------------- *)
\* The update block of frameLooper, one step per evaluation of the if, per
\* iteration of the while and for the random walk; the program starts with
\* avg_r = avg_g = avg_b = 0.
ColorInit ==
    /\ ProgInit
    /\ inputTex = [w |-> 0, h |-> 0, tex |-> << >>]
    /\ kernel = NoKernel
    /\ decay = NoDecay
    /\ wave = NoWave
    /\ vertex = NoVertex
    /\ \E c \in ColorStarts : color = [NoColor EXCEPT !.c = c, !.before = c]
    /\ rdr = NoGpu
    /\ pl = NoPlaylist

\* if ( bland || dim ) on a frame with updateWaveform set
ColorBegin ==
    /\ color.pc = "idle"
    /\ color.ticks < MaxTicks
    /\ color' = [color EXCEPT !.pc = IF NeedsReroll(color.c) THEN "loop" ELSE "walk",
                              !.before = color.c,
                              !.triggered = NeedsReroll(color.c),
                              !.rerolled = FALSE,
                              !.ticks = color.ticks + 1]
    /\ UNCHANGED <<progVars, blurVars, waveVars, rdr, pl>>

\* one iteration of while ( avg_r < 200 && avg_g < 200 && avg_b < 200 )
ColorReroll ==
    /\ color.pc = "loop"
    /\ LoopRuns(color.c)
    /\ \E t \in ColorBytes \X ColorBytes \X ColorBytes :
          color' = [color EXCEPT !.c = t, !.rerolled = TRUE]
    /\ UNCHANGED <<progVars, blurVars, waveVars, rdr, pl>>

\* the while condition is false
ColorLoopExit ==
    /\ color.pc = "loop"
    /\ ~LoopRuns(color.c)
    /\ color' = [color EXCEPT !.pc = "walk"]
    /\ UNCHANGED <<progVars, blurVars, waveVars, rdr, pl>>

\* the random walk of the three channels; the result is the colorRGB of
\* the renderFrame call that follows.
ColorWalk ==
    /\ color.pc = "walk"
    /\ \E u \in ColorSteps \X ColorSteps \X ColorSteps,
          d \in ColorSteps \X ColorSteps \X ColorSteps :
          color' = [color EXCEPT !.pc = "idle",
                                  !.c = <<Walk(color.c[1], u[1], d[1]),
                                          Walk(color.c[2], u[2], d[2]),
                                          Walk(color.c[3], u[3], d[3])>>]
    /\ UNCHANGED <<progVars, blurVars, waveVars, rdr, pl>>

ColorNext == ColorBegin \/ ColorReroll \/ ColorLoopExit \/ ColorWalk

ColorSpec == ColorInit /\ [][ColorNext]_vars

\* A re-roll whose three draws end the loop.
RerollExits == ColorReroll /\ ~LoopRuns(color'.c)

\* Math.random is fair: a loop that keeps re-rolling draws, sooner or
\* later, a triple with a channel of 200 or more.
ColorLiveSpec ==
    ColorInit /\ [][ColorNext]_vars
              /\ WF_vars(RerollExits) /\ WF_vars(ColorLoopExit) /\ WF_vars(ColorWalk)

TypeOK ==
    /\ pc \in {"load", "adapter", "device", "initialized", "ready", "failed"}
    /\ now \in 0..MaxTime /\ lastFrameTime \in 0..MaxTime
    /\ rafQueue + rafBatch <= MaxPending
    /\ playEvents \in 0..MaxEvents
    /\ clearFrame \in {0, 1} /\ updateWaveform \in {0, 1}
    /\ \A i \in 1..3 : avg[i] \in 0..ChannelMax
    /\ tickPending \in BOOLEAN

(* ======================= properties ======================= *)
FrameStep == rafBatch' = rafBatch - 1
Accepted == step.op = "frameLooper" /\ step.outcome = "accepted"
AllKinds == {"renderTexture", "tempTexture", "msaaTexture", "waveformTexture",
             "uniformBuffer", "audioDataBuffer", "colorUniformBuffer"}

C2_IdleRunning ==
    /\ [][(FrameStep /\ audioPaused) =>
            step'.renders = << >> /\ step'.requested = 0 /\ rafQueue' = rafQueue]_vars
    /\ [][(playEvents' = playEvents - 1 /\ audioSrc # 0) =>
            step'.requested = 1 /\ rafQueue' = rafQueue + 1]_vars
    /\ [][(step'.renders # << >>) => (FrameStep /\ ~audioPaused)]_vars
    /\ ((step.op = "playEvent" /\ step.requested = 1 /\ ~audioPaused)
          ~> (audioPaused \/ (Accepted /\ Len(step.renders) = 1)))

\* A callback found the audio paused and the scheduler is idle again.
C2_Witness ==
    /\ step.op = "frameLooper" /\ step.outcome = "paused"
    /\ rafQueue = 0 /\ rafBatch = 0 /\ audioSrc # 0

\* C3: one-shot flags.  The timers set their flags; an accepted frame hands
\* the current value of both flags to renderFrame and leaves both 0; a flag
\* that is set goes back to 0 only in an accepted frame that was handed 1.
C3_OneShotFlags ==
    /\ [][(step'.op = "clearTimer" => clearFrame' = 1 /\ updateWaveform' = updateWaveform)
          /\ (step'.op = "updateTimer" => updateWaveform' = 1 /\ clearFrame' = clearFrame)]_vars
    /\ [][(FrameStep /\ step'.outcome = "accepted") =>
            /\ step'.renders[1].clearFrame = clearFrame
            /\ step'.renders[1].updateWaveform = updateWaveform
            /\ clearFrame' = 0 /\ updateWaveform' = 0]_vars
    /\ [][(clearFrame = 1 /\ clearFrame' = 0) =>
            (FrameStep /\ step'.outcome = "accepted" /\ step'.renders[1].clearFrame = 1)]_vars
    /\ [][(updateWaveform = 1 /\ updateWaveform' = 0) =>
            (FrameStep /\ step'.outcome = "accepted"
               /\ step'.renders[1].updateWaveform = 1)]_vars

\* An accepted frame was handed both flags set and has reset them.
C3_Witness ==
    /\ Accepted
    /\ step.renders[1].clearFrame = 1 /\ step.renders[1].updateWaveform = 1
    /\ clearFrame = 0 /\ updateWaveform = 0

\* C4: update gating.  On an accepted frame with the update-waveform flag
\* unset no samples are acquired, audioData is null and the color driver
\* and dataArray are unchanged; with the flag set the samples are acquired
\* once, the color driver ticks once and audioData is the sample buffer.
C4_UpdateGating ==
    [][(FrameStep /\ step'.outcome = "accepted") =>
         IF updateWaveform = 0
         THEN /\ step'.acquired = 0 /\ step'.ticks = 0
              /\ step'.renders[1].audioData = << >>
              /\ avg' = avg /\ dataArray' = dataArray
              /\ step'.renders[1].colorRGB = avg
         ELSE /\ step'.acquired = 1 /\ step'.ticks = 1
              /\ step'.renders[1].audioData = <<dataArray'>>
              /\ avg' \in ColorTick(avg)
              /\ step'.renders[1].colorRGB = avg']_vars

\* An accepted frame without update, after the color driver had moved.
C4_Witness ==
    /\ Accepted
    /\ step.renders[1].updateWaveform = 0 /\ step.renders[1].audioData = << >>
    /\ avg # <<0, 0, 0>>

\* C5: feedback loop.  In a renderFrame call that follows another one with
\* no resizeCanvas in between, the blur pass reads exactly the final
\* contents of the temp surface of the earlier call.
C5_FeedbackLoop ==
    (Accepted /\ ~step.threw /\ step.expect # << >>) => step.log.blurRead = step.expect

\* The blur pass read a surface holding the waveform composited by the
\* frame before.
C5_Witness ==
    /\ Accepted /\ ~step.threw
    /\ step.expect = <<MaxLevel>> /\ step.log.blurRead = <<MaxLevel>>

\* C6: a resizeCanvas call that returns leaves every surface and buffer
\* field referring to a live resource created in that call, and no resource
\* of an earlier call live; the fields are replaced all together.
C6_ResizeReplacesAll ==
    /\ step.resized = 1 =>
          \A k \in AllKinds : rend.res[k].alloc /\ rend.res[k].live /\ rend.res[k].fresh
    /\ leaked = {}
    /\ \A j, k \in AllKinds :
          /\ rend.res[j].alloc = rend.res[k].alloc
          /\ rend.res[j].fresh = rend.res[k].fresh
          /\ rend.res[j].live = rend.res[k].live

\* A track change has resized a renderer whose resources had been in use.
C6_Witness ==
    /\ step.op = "changeAudioFile" /\ step.resized = 1
    /\ audioSrc # 0 /\ lastFrameTime > 0
    /\ \A k \in AllKinds : rend.res[k].live /\ rend.res[k].fresh

\* C7: once the surfaces exist, the render, temp, multisample and waveform
\* surfaces all have the canvas backing size, which is the logical size
\* times 1.3 rounded down, and the sizes in the decay and waveform uniforms
\* are that size too.
C7_SurfaceDimensions ==
    rend.res["renderTexture"].alloc =>
       LET w == rend.res["renderTexture"].w
           h == rend.res["renderTexture"].h
           u == rend.res["uniformBuffer"].data
           c == rend.res["colorUniformBuffer"].data
       IN /\ \A k \in {"renderTexture", "tempTexture", "msaaTexture", "waveformTexture"} :
                rend.res[k].w = w /\ rend.res[k].h = h
          /\ canvas = <<w, h>>
          /\ 10 * w <= 13 * client[1] /\ 13 * client[1] < 10 * (w + 1)
          /\ 10 * h <= 13 * client[2] /\ 13 * client[2] < 10 * (h + 1)
          /\ u # << >> => (u[1] = w /\ u[2] = h)
          /\ c # << >> => (c[1] = w /\ c[2] = h)

\* Both uniforms have been written for a canvas whose scaled size is not a
\* whole number (3 x 2 logical, 3.9 x 2.6 scaled).
C7_Witness ==
    /\ client = <<3, 2>>
    /\ rend.res["uniformBuffer"].data # << >>
    /\ rend.res["colorUniformBuffer"].data # << >>
    /\ rend.res["msaaTexture"].w = 3 /\ rend.res["msaaTexture"].h = 2

\* C8: every renderFrame call finds a renderer on which a resizeCanvas has
\* completed (device and all seven resources present), binds only live
\* resources and is submitted once.
C8_ResizeSerialized ==
    step.renders # << >> =>
       /\ ~step.threw
       /\ step.log.bound # {} /\ step.log.stale = {}
       /\ step.log.submits = 1

\* The first renderFrame call after a resize, drawing the waveform: all
\* seven resources are bound.
C8_Witness ==
    /\ Accepted /\ ~step.threw
    /\ step.expect = << >> /\ step.log.bound = AllKinds
    /\ lastFrameTime > TargetFrameTime

\* C9 as stated: when initialize has returned, the device is acquired, the
\* context is opaque, each pipeline has been built once and all surfaces
\* and buffers exist.
C9_AsClaimed ==
    pc = "initialized" =>
       /\ rend.device /\ rend.alphaMode = "opaque"
       /\ \A q \in Pipelines : rend.built[q] = 1
       /\ \A k \in AllKinds : rend.res[k].alloc

\* C9 amended: when initialize has returned, the device is acquired, the
\* context is opaque and each of the four pipelines has been built once,
\* but no surface or buffer exists yet; they all exist and are live once
\* the host has made its resizeCanvas call right after initialize.
C9_InitializeThenHostResize ==
    /\ pc = "initialized" =>
          /\ rend.device /\ rend.alphaMode = "opaque"
          /\ \A q \in {"blurPipeline", "waveformPipeline", "copyPipeline",
                       "compositePipeline"} : rend.built[q] = 1
          /\ \A k \in AllKinds : ~rend.res[k].alloc
    /\ pc = "ready" =>
          /\ rend.device /\ rend.alphaMode = "opaque"
          /\ \A q \in {"blurPipeline", "waveformPipeline", "copyPipeline",
                       "compositePipeline"} : rend.built[q] = 1
          /\ \A k \in AllKinds : rend.res[k].alloc /\ rend.res[k].live

\* initialize has just returned successfully.
C9_Witness == pc = "initialized" /\ step.op = "initialize" /\ rend.device

\* C10: initialize is invoked at most once; when it has failed, exactly one
\* initialization-error notification has been shown, whatever happens
\* afterwards, and none is shown otherwise.
C10_InitFailureTerminal ==
    /\ initCalls <= 1
    /\ pc = "failed" => (initCalls = 1 /\ notices = 1 /\ ~rend.device)
    /\ pc # "failed" => notices = 0

\* After a failed initialization a track change has been attempted.
C10_Witness ==
    /\ pc = "failed" /\ step.op = "changeAudioFile" /\ step.threw
    /\ notices = 1 /\ initCalls = 1

\* C11: after initialize has failed, no handler invokes resizeCanvas or
\* renderFrame on the renderer that failed to initialize.
C11_RenderingDisabled ==
    pc = "failed" => (step.invoked = 0 /\ step.renders = << >>)

\* A resize event after a failed initialization has called
\* renderer.resizeCanvas, which raised an error.
C11_Witness ==
    /\ pc = "failed" /\ step.op = "resize"
    /\ step.invoked = 1 /\ step.threw /\ step.resized = 0

\* C12: after an initialization failure a track change sets the audio
\* source and raises no error.
C12_AudioWorksAfterFailure ==
    (pc = "failed" /\ step.op = "changeAudioFile") =>
       (~step.threw /\ audioSrc # 0)

\* After a failed initialization and any number of track changes the audio
\* element still has no source.
C12_Witness ==
    /\ pc = "failed" /\ step.op = "changeAudioFile" /\ step.invoked = 1
    /\ audioSrc = 0 /\ audioPaused

\* C13: when renderFrame has failed on an accepted frame, the callback has
\* still requested the next animation callback.
C13_LoopSurvivesFrameError ==
    (Accepted /\ step.threw) => (step.requested = 1 /\ rafQueue > 0)

\* renderFrame has failed on an accepted frame while audio is playing, and
\* no frameLooper callback is pending any more.
C13_Witness ==
    /\ Accepted /\ step.threw /\ ~audioPaused
    /\ step.requested = 0 /\ rafQueue = 0 /\ rafBatch = 0

\* The positions of a pass in a recorded sequence.
At(seq, name) == {i \in 1..Len(seq) : seq[i] = name}

\* C14: in every renderFrame call that returns, each pass is recorded at
\* most once and in the order blur, shadow stroke, colored stroke,
\* composite, present, copy back; blur, present and copy back are always
\* recorded; the two strokes and the composite are recorded exactly when
\* updateWaveform is set and audioData is non-null; and there is exactly
\* one submit.
C14_PassOrder ==
    (step.renders # << >> /\ ~step.threw) =>
       LET ps == step.log.passes
           p == step.renders[1]
           draws == p.updateWaveform = 1 /\ p.audioData # << >>
           order == <<"blur", "shadow", "stroke", "composite", "present", "copy">>
       IN /\ \A n \in {"blur", "present", "copy"} : Cardinality(At(ps, n)) = 1
          /\ \A n \in {"shadow", "stroke", "composite"} :
                Cardinality(At(ps, n)) = IF draws THEN 1 ELSE 0
          /\ \A i \in 1..Len(ps) : \E j \in 1..6 : ps[i] = order[j]
          /\ \A i, j \in 1..6 : \A a \in At(ps, order[i]), b \in At(ps, order[j]) :
                i < j => a < b
          /\ step.log.submits = 1

\* A frame with the waveform has recorded all six steps, and an earlier
\* frame had left a trail for its blur pass.
C14_Witness ==
    /\ Accepted /\ ~step.threw
    /\ Len(step.log.passes) = 6 /\ step.log.blurRead = <<MaxLevel>>

\* C15: at every instant at most one frameLooper animation callback is
\* pending.
C15_SingleCallbackChain == rafQueue + rafBatch <= 1

\* Two callbacks have run in one animation frame while audio is playing
\* and each has requested its successor.
C15_Witness ==
    /\ step.op = "frameLooper" /\ step.outcome = "capped" /\ ~audioPaused
    /\ rafBatch = 0 /\ rafQueue = 2

\* C16: every write to the GPU audio-sample buffer is preceded by an
\* update-waveform tick that no earlier write has used, so the writes never
\* outnumber the ticks; one renderFrame call makes at most one write, and
\* none when it is handed the flag unset.
C16_TransferCadence ==
    /\ step.unticked = 0
    /\ step.renders # << >> => step.log.uploads <= 1
    /\ (step.renders # << >> /\ step.renders[1].updateWaveform = 0) => step.log.uploads = 0

\* Two frames rendered in a row after one tick: the second makes no write
\* to the sample buffer, which still holds the samples of the first.
C16_Witness ==
    /\ Accepted /\ ~step.threw /\ step.log.uploads = 0
    /\ step.expect = <<MaxLevel>>
    /\ rend.res["audioDataBuffer"].data # << >>
    /\ ~tickPending

\* C17: each of the four pipelines is created exactly once, by initialize,
\* and is that same object after any sequence of resizeCanvas and
\* renderFrame calls; no pipeline exists on a renderer whose initialization
\* has not succeeded.
C17_PipelinesImmutable ==
    \A q \in {"blurPipeline", "waveformPipeline", "copyPipeline", "compositePipeline"} :
       /\ rend.device => rend.built[q] = 1
       /\ ~rend.device => rend.built[q] = 0

\* A window resize after frames had been rendered: the resources are new,
\* the pipelines are not.
C17_Witness ==
    /\ step.op = "resize" /\ step.resized = 1 /\ lastFrameTime > 0
    /\ \A k \in AllKinds : rend.res[k].fresh
    /\ \A q \in Pipelines : rend.built[q] = 1

C19_LoadsInBounds ==
    kernel.ran =>
       \A i \in 1..Len(kernel.loads) : InBounds(kernel.loads[i], inputTex.w, inputTex.h)

\* The invocation for the bottom-left pixel has loaded its left neighbor in
\* column -1 and its down neighbor in row height.
C19_Witness ==
    /\ kernel.ran /\ kernel.x = 0 /\ kernel.y = inputTex.h - 1
    /\ \E i, j \in 1..Len(kernel.loads) :
          /\ kernel.loads[i] = <<-1, kernel.y>>
          /\ kernel.loads[j] = <<0, inputTex.h>>

Uniform == \A c, d \in DOMAIN inputTex.tex : inputTex.tex[c] = inputTex.tex[d]

\* C20: with clearFrame = 0 and an input surface whose pixels all have the
\* same color, the color the decay pass writes at a pixel is the color the
\* input has there.
C20_UniformUnchanged ==
    (kernel.ran /\ kernel.clear = 0 /\ Uniform) =>
       kernel.out[1] = inputTex.tex[<<kernel.x, kernel.y>>][1]

\* On an all-white opaque input and with clearFrame = 0 the pixel at the
\* top of column 0 has come out darker than white.
C20_Witness ==
    /\ kernel.ran /\ kernel.clear = 0 /\ Uniform
    /\ kernel.x = 0 /\ kernel.y = 0
    /\ inputTex.tex[<<0, 0>>] = <<UnormMax, UnormMax>>
    /\ kernel.out[1] < UnormMax

\* C21: under repeated decay passes with clearFrame = 1 every pixel's
\* channel is no greater after a pass than before it, and a pixel is 0 once
\* ceil(initial value / falloff) passes have been applied.
C21_MonotonicFade ==
    decay.n > 0 =>
       \A c \in DOMAIN inputTex.tex :
          /\ inputTex.tex[c][1] <= decay.prev[c][1]
          /\ decay.n >= CeilDiv(decay.first[c][1] * Unit, Falloff) => inputTex.tex[c][1] = 0

\* A surface that started at level 5 everywhere (5/255 = 0.0196, so
\* ceil(0.0196 / 0.005) = 4) still holds a non-zero pixel after 4 passes.
C21_Witness ==
    /\ decay.n = 4
    /\ \A c \in DOMAIN decay.first : decay.first[c][1] = 5
    /\ \E c \in DOMAIN inputTex.tex : inputTex.tex[c][1] > 0

\* The input textures that agree with tex on every column up to x.
SameUpTo(tex, w, h, x) ==
    {[c \in Coords(w, h) |-> IF c[1] <= x THEN tex[c] ELSE <<v[c], tex[c][2]>>] :
        v \in [Coords(w, h) \ Coords(x + 1, h) -> TexelLevels]}

\* C22: the output at pixel (x, y) is the same for two input surfaces that
\* differ only in columns greater than x, whatever the GPU returns for an
\* out-of-bounds load and however it rounds.
C22_NeighborSet ==
    kernel.ran =>
       \A t \in SameUpTo(inputTex.tex, inputTex.w, inputTex.h, kernel.x) :
          \A oob \in OobChoices(inputTex.w, inputTex.h), tieUp \in BOOLEAN :
             BlurMain(t, inputTex.w, inputTex.h, kernel.x, kernel.y, kernel.clear,
                      oob, tieUp).out
             = BlurMain(inputTex.tex, inputTex.w, inputTex.h, kernel.x, kernel.y,
                        kernel.clear, oob, tieUp).out

\* The pixel at the top of column 0 has come out non-black although every
\* texel of column 0 is black: its out-of-bounds left load returned a texel
\* of a column to its right.
C22_Witness ==
    /\ kernel.ran /\ kernel.x = 0 /\ kernel.y = 0 /\ kernel.clear = 0
    /\ \A c \in DOMAIN inputTex.tex : c[1] = 0 => inputTex.tex[c][1] = 0
    /\ kernel.out[1] > 0

\* C23: a waveform draw over a buffer of N samples issues 6 * (N - 1)
\* vertices; vertex k belongs to segment k \div 6, which lies in 0..N-2,
\* every segment 0..N-2 gets vertices, and the vertex reads exactly the
\* samples at the segment's index and the next one, both inside 0..N-1.
C23_SegmentCount ==
    vertex.ran =>
        LET N == wave.u.bufferLength
        IN /\ DrawCount(N) = 6 * (N - 1)
           /\ {k \div 6 : k \in 0..(DrawCount(N) - 1)} = 0..(N - 2)
           /\ vertex.segment = vertex.vertexIndex \div 6
           /\ vertex.segment \in 0..(N - 2)
           /\ ~vertex.skipped
           /\ vertex.reads = <<vertex.segment, vertex.segment + 1>>
           /\ \A j \in 1..Len(vertex.reads) : vertex.reads[j] \in 0..(N - 1)

C23_Witness ==
    /\ vertex.ran
    /\ wave.u.bufferLength = bufferLength
    /\ vertex.vertexIndex = 6 * (bufferLength - 1) - 1
    /\ vertex.reads = <<bufferLength - 2, bufferLength - 1>>

\* The sample buffer of the draw holds one value throughout.
Flat == \A i \in DOMAIN wave.audioData : wave.audioData[i] = wave.audioData[0]

\* C24 as stated: for a flat sample buffer every quad has zero height and is
\* centered on midY, the perpendicular offset is exactly (0, 0), and no
\* coordinate is NaN.
C24_AsClaimed ==
    (vertex.ran /\ Flat) =>
        /\ vertex.perp.num = <<0, 0>>
        /\ vertex.p1[2] = wave.u.midY /\ vertex.p2[2] = wave.u.midY
        /\ ~(vertex.perp.divided /\ vertex.perp.len2 = 0)

\* C24 amended: for a flat sample buffer of value v every quad is a
\* rectangle whose center line runs from x = i * sliceWidth to
\* (i + 1) * sliceWidth at y = midY + (v - 128) * heightChunks; its
\* perpendicular offset is (0, lineWidth) when sliceWidth > 0, so that its
\* height is twice the line width, and (0, 0) when sliceWidth = 0; no
\* division by zero is made, so no coordinate is NaN.
C24_FlatStroke ==
    (vertex.ran /\ Flat) =>
        LET y == wave.u.midY + (wave.audioData[0] - 128) * wave.u.heightChunks
        IN /\ vertex.p1 = <<vertex.segment * wave.u.sliceWidth, y>>
           /\ vertex.p2 = <<(vertex.segment + 1) * wave.u.sliceWidth, y>>
           /\ ~(vertex.perp.divided /\ vertex.perp.len2 = 0)
           /\ vertex.perp.num[1] = 0
           /\ IF wave.u.sliceWidth > 0
              THEN /\ vertex.perp.divided
                   /\ vertex.perp.num[2] > 0
                   /\ vertex.perp.num[2] * vertex.perp.num[2]
                        = wave.u.lineWidth * wave.u.lineWidth * vertex.perp.len2
              ELSE ~vertex.perp.divided /\ vertex.perp.num[2] = 0

C24_Witness ==
    /\ vertex.ran /\ Flat
    /\ wave.audioData[0] = UnormMax
    /\ wave.u.sliceWidth = 3 /\ wave.u.lineWidth = ShadowWidth
    /\ vertex.perp = [num |-> <<0, 9>>, len2 |-> 9, divided |-> TRUE]
    /\ vertex.p1[2] = wave.u.midY + 127

\* The draw of the end-to-end example: 512 samples alternating 0 and 255,
\* midY 100, heightChunks 10, sliceWidth 2.
AlternatingDraw ==
    /\ wave.u.bufferLength = 512 /\ wave.u.midY = 100
    /\ wave.u.heightChunks = 10 /\ wave.u.sliceWidth = 2
    /\ DOMAIN wave.audioData = 0..511
    /\ \A i \in 0..511 : wave.audioData[i] = (IF i % 2 = 0 THEN 0 ELSE 255)

\* C25: in the end-to-end example the draw produces exactly 511 quads, and
\* the center line of quad i runs from x = 2 * i to x = 2 * (i + 1), from
\* y = midY - 1280 to y = midY + 1270 when i is even and the other way
\* round when i is odd.
C25_EndToEnd ==
    (vertex.ran /\ AlternatingDraw) =>
        LET i == vertex.segment
            lo == wave.u.midY - 1280
            hi == wave.u.midY + 1270
        IN /\ Cardinality({k \div 6 : k \in 0..(DrawCount(wave.u.bufferLength) - 1)}) = 511
           /\ i \in 0..510
           /\ ~vertex.skipped
           /\ vertex.p1 = <<2 * i, IF i % 2 = 0 THEN lo ELSE hi>>
           /\ vertex.p2 = <<2 * (i + 1), IF i % 2 = 0 THEN hi ELSE lo>>

C25_Witness ==
    /\ vertex.ran /\ AlternatingDraw
    /\ vertex.segment = 510
    /\ vertex.p1 = <<1020, -1180>>
    /\ vertex.p2 = <<1022, 1370>>

\* C26: for a segment whose end points coincide the vertex shader makes no
\* division and the perpendicular offset is (0, 0); for every other
\* segment the offset is divided by the segment's length and its own
\* length is the line width.
C26_DegenerateSegments ==
    (vertex.ran /\ ~vertex.skipped) =>
        LET dx == vertex.p2[1] - vertex.p1[1]
            dy == vertex.p2[2] - vertex.p1[2]
            perp == vertex.perp
        IN IF dx = 0 /\ dy = 0
           THEN ~perp.divided /\ perp.num = <<0, 0>>
           ELSE /\ perp.divided
                /\ perp.len2 = dx * dx + dy * dy
                /\ perp.num[1] * perp.num[1] + perp.num[2] * perp.num[2]
                     = wave.u.lineWidth * wave.u.lineWidth * perp.len2

C26_Witness ==
    /\ vertex.ran /\ ~vertex.skipped
    /\ vertex.p1 = vertex.p2
    /\ wave.u.lineWidth = ShadowWidth
    /\ vertex.perp = NoPerp

\* C27: whenever an update tick enters the re-roll loop, the loop ends,
\* given that the random draws are fair.
C27_RerollTerminates == (color.pc = "loop") ~> (color.pc = "walk")

C27_Witness ==
    /\ color.pc = "walk"
    /\ color.triggered /\ color.rerolled
    /\ color.before = <<0, 0, 0>>

\* C28: when an update tick finds the triple bland or dim, the three
\* channels are re-rolled and, once the re-roll is over, the triple is
\* neither bland nor dim.
C28_RerollPostcondition ==
    (color.pc = "walk" /\ color.triggered) =>
        (color.rerolled /\ ~NeedsReroll(color.c))

C28_Witness ==
    /\ color.pc = "walk"
    /\ color.triggered /\ color.rerolled
    /\ color.before = <<0, 0, 0>>
    /\ color.c = <<RerollCeiling, RerollCeiling, RerollCeiling>>
    /\ NeedsReroll(color.c)

\* An update tick has run to its end: color.c is the color handed to renderFrame.
Ticked == color.pc = "idle" /\ color.ticks > 0

\* C29: after an update tick every channel is in 0..255, and when the tick
\* made no re-roll every channel is within 20 of its value before the tick.
C29_RangeAndStep ==
    Ticked =>
        \A i \in 1..3 :
            /\ color.c[i] \in 0..255
            /\ ~color.rerolled =>
                  /\ color.c[i] - color.before[i] <= 20
                  /\ color.before[i] - color.c[i] <= 20

C29_Witness ==
    /\ Ticked /\ ~color.rerolled
    /\ color.before = <<ChannelMax, ChannelMax, ChannelMax>>
    /\ color.c = <<ChannelMax, ChannelMax - WalkMax, ChannelMax>>

\* C30: the color handed to renderFrame on an updating frame has a channel
\* of 128 or more.
C30_StrokeBright ==
    Ticked => \E i \in 1..3 : color.c[i] >= 128

C30_Witness ==
    /\ Ticked /\ ~color.rerolled
    /\ color.before = <<140, 0, 0>>
    /\ color.c = <<120, 0, 0>>

\* C31: a frameLooper callback that runs while audio is paused, or less than
\* 12.5 ms (5 units) after the last accepted frame, leaves lastFrameTime,
\* the clear flag, the update-waveform flag, the color triple, the sample
\* buffer and the renderer as they were, acquires no samples, does not tick
\* the color driver and does not call renderFrame.
C31_RejectedChangesNothing ==
    [][(FrameStep /\ (audioPaused \/ now - lastFrameTime < 5)) =>
         /\ lastFrameTime' = lastFrameTime
         /\ clearFrame' = clearFrame
         /\ updateWaveform' = updateWaveform
         /\ avg' = avg
         /\ dataArray' = dataArray
         /\ rend' = rend
         /\ step'.renders = << >>
         /\ step'.acquired = 0 /\ step'.ticks = 0]_vars

\* A callback was rejected by the cap while both flags were set.
C31_Witness ==
    /\ step.op = "frameLooper" /\ step.outcome = "capped"
    /\ clearFrame = 1 /\ updateWaveform = 1
    /\ lastFrameTime > 0

\* C32: after any sequence of resizeCanvas and renderFrame calls the
\* buffers and textures created and not destroyed number at most ten: the
\* seven objects resizeCanvas manages and the three buffers of one
\* waveform draw, however many frames were rendered.
C32_BoundedResources == GpuLive <= Cardinality(AllKinds) + 3

\* Three drawing frames after a resize: the seven managed objects and nine
\* buffers left behind.
C32_Witness ==
    /\ rdr.frames = 3
    /\ rdr.orphans = 9
    /\ GpuLive = 16

(* ---------------- the playlist index ---------------- *)
IndexInRange ==
    /\ -1 <= pl.currentTrackIndex
    /\ pl.currentTrackIndex < Len(pl.playlist)
    /\ (pl.currentTrackIndex = -1) <=> (Len(pl.playlist) = 0)

\* C33: when every playlist operation started so far has run to completion,
\* currentTrackIndex is at least -1 and below playlist.length, and it is -1
\* exactly when the playlist is empty.
C33_IndexInvariant == AllDone => IndexInRange

\* Every operation has finished and currentTrackIndex is past the end of a
\* playlist that is not empty: a removeTrack call that waited for playTrack(0)
\* removed a track after another action had moved the current index.
C33_Witness ==
    /\ AllDone
    /\ pl.h.op = "settle"
    /\ pl.h.resumed
    /\ pl.h.removed # 0
    /\ Len(pl.playlist) > 0
    /\ pl.currentTrackIndex >= Len(pl.playlist)

\* The same with every operation started after the one before had finished.
C33_Sequential == Settled => IndexInRange

(* ---------------- the current track and the audio source ---------------- *)
SourceIsCurrent ==
    /\ pl.src = Track(pl.playlist, pl.currentTrackIndex)
    /\ pl.src \notin pl.revoked

\* C34: once every operation has run to completion, each started after the
\* one before had finished, in every repeat mode: when currentTrackIndex >= 0
\* the source of the audio element is the URL of playlist[currentTrackIndex]
\* and that URL has not been revoked.
C34_SourceMatches == (Settled /\ pl.currentTrackIndex >= 0) => SourceIsCurrent

\* The current track was removed in repeat mode 'one': the index names the
\* track that followed it, the element still has the revoked URL.
C34_Witness ==
    /\ Settled
    /\ pl.h.op = "removeTrack"
    /\ pl.repeatMode = "one"
    /\ pl.currentTrackIndex >= 0
    /\ pl.src = pl.h.removed
    /\ pl.src \in pl.revoked
    /\ pl.src # Track(pl.playlist, pl.currentTrackIndex)

(* ---------------- removals that cross other actions ---------------- *)
\* The actions C35 names.
Crossing == {"removeTrack", "clearPlaylist", "handleDrop"}

\* C35: a removeTrack call that goes on after its await, when in between
\* only removals, a clearing or reorders of the playlist were handled,
\* removes the track whose button was clicked and no other, and reads no
\* playlist entry that does not exist.
C35_InterleavedRemoval ==
    (pl.h.resumed /\ pl.h.between # {} /\ pl.h.between \subseteq Crossing)
        => (~pl.h.threw /\ pl.h.removed = pl.h.clicked)

\* After a reorder in between, the call went on and removed another track
\* than the one clicked.
C35_Witness ==
    /\ pl.h.resumed
    /\ pl.h.between = {"handleDrop"}
    /\ pl.h.removed # 0
    /\ pl.h.removed # pl.h.clicked

\* After a clearing in between, the call went on and read the url of an
\* entry that is not there.
C35_Dereferenced ==
    /\ pl.h.resumed
    /\ pl.h.between = {"clearPlaylist"}
    /\ pl.h.threw
    /\ pl.playlist = << >>

(* ---------------- the order of revocation and switch ---------------- *)
\* C36: when removeTrack, called while no other operation is in progress,
\* revokes the URL of a track and the playlist held another track to switch
\* to, the audio element's source is not that URL at the moment of the
\* revokeObjectURL call.
C36_RevokedOutOfUse ==
    (pl.h.op = "removeTrack" /\ ~pl.overlapped /\ pl.h.revoked /\ pl.h.avail)
        => ~pl.h.inUse

\* The current track of several was removed in repeat mode 'off': its URL
\* was revoked while it was the source, and the source was switched to the
\* next track afterwards.
C36_Witness ==
    /\ pl.h.op = "removeTrack"
    /\ ~pl.overlapped
    /\ pl.repeatMode = "off"
    /\ pl.h.revoked /\ pl.h.avail /\ pl.h.inUse
    /\ pl.src # pl.h.removed
    /\ pl.src = Track(pl.playlist, pl.currentTrackIndex)

(* ---------------- playNext ---------------- *)
\* What stays when playNext does nothing.
SamePlayback ==
    /\ pl'.currentTrackIndex = pl.currentTrackIndex
    /\ pl'.src = pl.src
    /\ pl'.paused = pl.paused
    /\ pl'.playlist = pl.playlist
    /\ Len(pl'.pending) = Len(pl.pending)

\* C37: playNext does nothing on an empty playlist or without a current
\* track; in repeat mode 'one' it restarts the current track and leaves
\* currentTrackIndex; otherwise, on a track that is not the last it makes
\* the next index current, with that track as the source; on the last
\* track it makes index 0 current in repeat mode 'all' and leaves index and
\* playback as they are in repeat mode 'off'.
C37_PlayNext ==
    [][NextClick =>
         LET n == Len(pl.playlist)
             cur == pl.currentTrackIndex
         IN /\ pl'.playlist = pl.playlist
            /\ pl'.repeatMode = pl.repeatMode
            /\ (n = 0 \/ cur < 0) => SamePlayback
            /\ (n > 0 /\ cur >= 0 /\ pl.repeatMode = "one") =>
                   /\ pl'.currentTrackIndex = cur
                   /\ pl'.src = pl.src
                   /\ ~pl'.paused
            /\ (cur >= 0 /\ cur < n - 1 /\ pl.repeatMode # "one") =>
                   /\ pl'.currentTrackIndex = cur + 1
                   /\ pl'.src = Track(pl.playlist, cur + 1)
                   /\ ~pl'.paused
            /\ (cur >= 0 /\ cur = n - 1 /\ pl.repeatMode = "all") =>
                   /\ pl'.currentTrackIndex = 0
                   /\ pl'.src = Track(pl.playlist, 0)
                   /\ ~pl'.paused
            /\ (cur >= 0 /\ cur = n - 1 /\ pl.repeatMode = "off") => SamePlayback]_vars

\* playNext went from the middle track of three to the last.
C37_Witness ==
    /\ pl.h.op = "playNext"
    /\ Len(pl.playlist) = 3
    /\ pl.currentTrackIndex = 2
    /\ pl.src = Track(pl.playlist, 2)
    /\ pl.repeatMode = "off"
    /\ ~pl.paused
    /\ Len(pl.pending) = 1

\* playNext wrapped around to the first track in repeat mode 'all'.
C37_Wrapped ==
    /\ pl.h.op = "playNext"
    /\ pl.repeatMode = "all"
    /\ Len(pl.playlist) > 1
    /\ pl.currentTrackIndex = 0
    /\ pl.src = Track(pl.playlist, 0)
    /\ Len(pl.pending) = 1

(* ---------------- drop reorder ---------------- *)
\* The tracks of a playlist.
Tracks(p) == {p[j] : j \in DOMAIN p}

\* C38: handleDrop leaves a permutation of the playlist, no track lost and
\* none twice, and playlist[currentTrackIndex] is the same track after the
\* drop as before it.
C38_DropPermutes ==
    [][DropItem =>
         /\ Len(pl'.playlist) = Len(pl.playlist)
         /\ Tracks(pl'.playlist) = Tracks(pl.playlist)
         /\ Cardinality(Tracks(pl'.playlist)) = Len(pl'.playlist)
         /\ Track(pl'.playlist, pl'.currentTrackIndex) = Track(pl.playlist, pl.currentTrackIndex)]_vars

\* A drop while addTracksToPlaylist was between two files: a track that
\* was pushed and never removed is no longer in the playlist.
C38_Witness ==
    /\ pl.h.op = "handleDrop"
    /\ pl.adding > 0
    /\ pl.revoked = {}
    /\ \E t \in 1..(pl.nextId - 1) : t \notin Tracks(pl.playlist)

\* The same for the drops made while the list view shows the playlist as it
\* is.
C38_InSync ==
    [][(DropItem /\ pl.domLen = Len(pl.playlist)) =>
         /\ Len(pl'.playlist) = Len(pl.playlist)
         /\ Tracks(pl'.playlist) = Tracks(pl.playlist)
         /\ Track(pl'.playlist, pl'.currentTrackIndex) = Track(pl.playlist, pl.currentTrackIndex)]_vars

\* A drop has moved the first of three tracks to the end while the second
\* was current: the playlist is reordered and the current index went from
\* 1 to 0.
C38_Reordered ==
    /\ pl.h.op = "handleDrop"
    /\ pl.playlist = <<2, 3, 1>>
    /\ pl.currentTrackIndex = 0
    /\ pl.src = 2
    /\ pl.domLen = 3

====
